---- MODULE Spec2Model ----
(***************************************************************************)
(* Event history and versioning of the narrative engine's state store      *)
(* (src/lib/state.ts): the event log `events`, the sparse string-keyed     *)
(* side table `eventHistory`, and the operations that mutate both.         *)
(***************************************************************************)
EXTENDS Integers, Sequences, FiniteSets, TLC

\* ------------------------------------------------------------------ bounds
\* Longest event log the store starts with.
MaxLog == 3
\* Most version entries one history holds (addEventHistoryVersion is not
\* called on a history that is already that long).
MaxEntries == 3
\* Most version entries the whole History Store holds.
MaxTotal == 3
\* Most version entries of the history the pages are taken from.
MaxListed == 12
\* Largest page index getEventHistoryPage is called with; the smallest is
\* its negative.
MaxPage == 3

\* ------------------------------------------------------------------ values
\* Events of the timeline: a tagged variant, each kind with its own payload.
ActionEvent(a) == [type |-> "action", action |-> a]
NarrationEvent(t) == [type |-> "narration", text |-> t]

GoNorth == ActionEvent("go north")
GoEast == ActionEvent("go east")
Dawn == NarrationEvent("dawn breaks")

\* The log the store starts with is a prefix of this timeline, repeated as
\* often as the bound asks for.
Timeline == <<GoNorth, Dawn, GoEast>>
\* The versions addEventHistoryVersion is given: the edited action of
\* ActionEventView.handleSave, a regenerated narration, and an action given
\* as regenerated.
NewVersions ==
  {<<GoEast, "edit">>, <<Dawn, "regenerate">>, <<GoEast, "regenerate">>}

\* What reading past the end of a JavaScript array yields.
Undefined == [type |-> "undefined"]

VARIABLES
  events,        \* state.events: the event log
  eventHistory,  \* state.eventHistory: key (String(eventIndex)) -> history
  lastOp,        \* the operation that ran last, with its arguments
  pre,           \* events and eventHistory as they were when it started
  error,         \* whether that operation threw
  roundTrip,     \* how far the last calls are into add, select 0, select last
  steps,         \* the setAsync calls not yet settled, in submission order
  isRegenerating, \* positions whose NarrationEventView has isRegenerating set
  page,          \* the page EventHistoryViewer shows
  historyPagination \* state.historyPagination

vars ==
  <<events, eventHistory, lastOp, pre, error, roundTrip, steps,
    isRegenerating, page, historyPagination>>

\* ------------------------------------------------------- JavaScript values
DigitChar(d) ==
  CASE d = 0 -> "0" [] d = 1 -> "1" [] d = 2 -> "2" [] d = 3 -> "3"
    [] d = 4 -> "4" [] d = 5 -> "5" [] d = 6 -> "6" [] d = 7 -> "7"
    [] d = 8 -> "8" [] d = 9 -> "9"

DigitValue(c) ==
  CASE c = "0" -> 0 [] c = "1" -> 1 [] c = "2" -> 2 [] c = "3" -> 3
    [] c = "4" -> 4 [] c = "5" -> 5 [] c = "6" -> 6 [] c = "7" -> 7
    [] c = "8" -> 8 [] c = "9" -> 9 [] OTHER -> -1

RECURSIVE Digits(_)
Digits(n) ==
  IF n < 10 THEN <<DigitChar(n)>>
  ELSE Digits(n \div 10) \o <<DigitChar(n % 10)>>

\* String(n) of an integer: its decimal digits, a string as a sequence of
\* characters.
String(n) == IF n < 0 THEN <<"-">> \o Digits(-n) ELSE Digits(n)

RECURSIVE ParseDigits(_, _)
ParseDigits(s, acc) ==
  IF s = <<>> \/ DigitValue(Head(s)) < 0 THEN acc
  ELSE ParseDigits(Tail(s), 10 * acc + DigitValue(Head(s)))

\* Number.isNaN(Number.parseInt(s, 10)): no digit follows the optional sign.
ParsesToNaN(s) ==
  IF s = <<>> THEN TRUE
  ELSE IF Head(s) = "-" THEN Len(s) < 2 \/ DigitValue(s[2]) < 0
  ELSE DigitValue(Head(s)) < 0

\* Number.parseInt(s, 10) when it is a number: an optional sign, then the
\* leading digits.
ParseInt(s) ==
  IF Head(s) = "-" THEN 0 - ParseDigits(Tail(s), 0) ELSE ParseDigits(s, 0)

\* arr[i] of a JavaScript array held as a sequence (index 0 is arr[1]).
At(arr, i) == IF 0 <= i /\ i < Len(arr) THEN arr[i + 1] ELSE Undefined

\* arr[i] = v: in range it replaces the element, past the end it grows the
\* array (the holes in between read as undefined); a negative i sets a
\* property of the object and no element.
ArraySet(arr, i, v) ==
  IF i < 0 THEN arr
  ELSE IF i < Len(arr) THEN [arr EXCEPT ![i + 1] = v]
  ELSE arr \o [k \in 1 .. (i - Len(arr)) |-> Undefined] \o <<v>>

\* arr.splice(start): everything from start on is removed.
SpliceToEnd(arr, start) ==
  IF start >= Len(arr) THEN arr ELSE SubSeq(arr, 1, start)

\* arr.splice(start, 1) for start >= 0.
Splice1(arr, start) ==
  IF start >= Len(arr) THEN arr
  ELSE SubSeq(arr, 1, start) \o SubSeq(arr, start + 2, Len(arr))

\* obj[key] (truthy test) and obj[key] = value, delete obj[key].
Has(obj, key) == key \in DOMAIN obj
PutAlone(obj, key, value) == [k \in {key} |-> value]
Put(obj, key, value) ==
  [k \in (DOMAIN obj) \cup {key} |-> IF k = key THEN value ELSE obj[k]]
Delete(obj, key) == [k \in (DOMAIN obj) \ {key} |-> obj[k]]
EmptyObject == [k \in {} |-> Undefined]

\* ------------------------------------------------------------- the store
\* The part of the store the history operations read and write, and whether
\* the recipe given to set() threw.
Store(ev, hist) == [events |-> ev, eventHistory |-> hist, threw |-> FALSE]
Current == Store(events, eventHistory)

\* A recipe that throws: immer drops the draft, the store keeps its state and
\* the error reaches the caller of set().
Throw(state) == [state EXCEPT !.threw = TRUE]

\* A version entry. Its timestamp (Date.now() when it is made) is not kept:
\* no operation reads it, and an entry's fields are never written again.
Entry(event, type) == [event |-> event, type |-> type]

\* SeedEntry that records every seed as an edit.
SeedEntryAsEdit(event) == Entry(event, "edit")

\* The entry a history is seeded with: a copy of the event at the position.
SeedEntry(event) ==
  Entry(event, IF event.type = "action" THEN "edit" ELSE "regenerate")

SeedHistory(event) ==
  [entries |-> <<SeedEntry(event)>>, currentVersionIndex |-> 0]

\* SeededHistory that seeds a history where the log holds no event.
SeededHistoryAnywhere(state, eventIndex) ==
  LET key == String(eventIndex)
  IN IF Has(state.eventHistory, key) THEN state.eventHistory
     ELSE Put(state.eventHistory, key,
              SeedHistory(At(state.events, eventIndex)))

\* SeededHistory that seeds again where a history exists already.
SeededHistoryAgain(state, eventIndex) ==
  LET key == String(eventIndex)
      event == At(state.events, eventIndex)
  IN IF event = Undefined THEN state.eventHistory
     ELSE IF ~Has(state.eventHistory, key)
     THEN Put(state.eventHistory, key, SeedHistory(event))
     ELSE Put(state.eventHistory, key,
              [state.eventHistory[key] EXCEPT
                 !.entries = Append(@, SeedEntry(event))])

\* The History Store once the position has its history, if an event is there.
SeededHistory(state, eventIndex) ==
  LET key == String(eventIndex)
      event == At(state.events, eventIndex)
  IN IF ~Has(state.eventHistory, key) /\ event # Undefined
     THEN Put(state.eventHistory, key, SeedHistory(event))
     ELSE state.eventHistory

\* ensureEventHistory(eventIndex): the store it leaves.
EnsureEventHistoryResult(state, eventIndex) ==
  IF eventIndex < 0 THEN state
  ELSE Store(state.events, SeededHistory(state, eventIndex))

\* PushVersion with the pointer set to the new length.
PushVersionPastEnd(history, newEvent, type) ==
  LET entries == Append(history.entries, Entry(newEvent, type))
  IN [entries |-> entries, currentVersionIndex |-> Len(entries)]

\* PushVersion with every new version recorded as an edit.
PushVersionAsEdit(history, newEvent, type) ==
  LET entries == Append(history.entries, Entry(newEvent, "edit"))
  IN [entries |-> entries, currentVersionIndex |-> Len(entries) - 1]

\* PushVersion that writes the new version over the last one.
PushVersionOverLast(history, newEvent, type) ==
  [entries |-> [history.entries EXCEPT
                  ![Len(history.entries)] = Entry(newEvent, type)],
   currentVersionIndex |-> Len(history.entries) - 1]

\* history.entries.push(...); history.currentVersionIndex = length - 1.
PushVersion(history, newEvent, type) ==
  LET entries == Append(history.entries, Entry(newEvent, type))
  IN [entries |-> entries, currentVersionIndex |-> Len(entries) - 1]

\* addEventHistoryVersion that writes the new event into the log before it
\* seeds the history.
AddSeedingAfterWrite(state, eventIndex, newEvent, type) ==
  IF eventIndex < 0 THEN state
  ELSE
    LET key == String(eventIndex)
        written ==
          IF At(state.events, eventIndex) # Undefined
          THEN Store(ArraySet(state.events, eventIndex, newEvent),
                     state.eventHistory)
          ELSE state
        seeded == SeededHistory(written, eventIndex)
    IN IF Has(seeded, key)
       THEN Store(ArraySet(state.events, eventIndex, newEvent),
                  Put(seeded, key, PushVersion(seeded[key], newEvent, type)))
       ELSE Store(state.events, seeded)

\* addEventHistoryVersion(eventIndex, newEvent, type): the store it leaves.
AddEventHistoryVersionResult(state, eventIndex, newEvent, type) ==
  IF eventIndex < 0 THEN state
  ELSE
    LET key == String(eventIndex)
        seeded == SeededHistory(state, eventIndex)
    IN IF Has(seeded, key)
       THEN Store(ArraySet(state.events, eventIndex, newEvent),
                  Put(seeded, key, PushVersion(seeded[key], newEvent, type)))
       ELSE Store(state.events, seeded)

\* MirrorVersion that moves the pointer and leaves the log alone.
MirrorVersionPointerOnly(state, eventIndex, entries, current) ==
  IF At(entries, current) = Undefined THEN Throw(state)
  ELSE Store(state.events,
             Put(state.eventHistory, String(eventIndex),
                 [entries |-> entries, currentVersionIndex |-> current]))

\* MirrorVersion that drops the versions newer than the one it mirrors.
MirrorVersionTruncating(state, eventIndex, entries, current) ==
  IF At(entries, current) = Undefined THEN Throw(state)
  ELSE Store(ArraySet(state.events, eventIndex, At(entries, current).event),
             Put(state.eventHistory, String(eventIndex),
                 [entries |-> SubSeq(entries, 1, current + 1),
                  currentVersionIndex |-> current]))

\* history.currentVersionIndex = current;
\* state.events[eventIndex] = history.entries[current].event
\* (reading .event of a missing entry throws a TypeError).
MirrorVersion(state, eventIndex, entries, current) ==
  IF At(entries, current) = Undefined THEN Throw(state)
  ELSE Store(ArraySet(state.events, eventIndex, At(entries, current).event),
             Put(state.eventHistory, String(eventIndex),
                 [entries |-> entries, currentVersionIndex |-> current]))

\* selectEventHistoryVersion that takes the last index for out of range.
SelectBelowLast(state, eventIndex, versionIndex) ==
  LET key == String(eventIndex)
  IN IF /\ Has(state.eventHistory, key)
        /\ versionIndex >= 0
        /\ versionIndex < Len(state.eventHistory[key].entries) - 1
     THEN MirrorVersion(state, eventIndex, state.eventHistory[key].entries,
                        versionIndex)
     ELSE state

\* selectEventHistoryVersion(eventIndex, versionIndex): the store it leaves.
SelectEventHistoryVersionResult(state, eventIndex, versionIndex) ==
  LET key == String(eventIndex)
  IN IF /\ Has(state.eventHistory, key)
        /\ versionIndex >= 0
        /\ versionIndex < Len(state.eventHistory[key].entries)
     THEN MirrorVersion(state, eventIndex, state.eventHistory[key].entries,
                        versionIndex)
     ELSE state

Max(a, b) == IF a >= b THEN a ELSE b

\* IsLastVersion that lets the last version go.
IsLastVersionOfNone(history) == Len(history.entries) < 1

\* "Don't allow deleting the last version".
IsLastVersion(history) == Len(history.entries) <= 1

\* CurrentAfterDeletingCurrent that goes back to the first version.
CurrentAfterDeletingCurrentFirst(versionIndex) == 0

\* The pointer after the current version was deleted.
CurrentAfterDeletingCurrent(versionIndex) == Max(0, versionIndex - 1)

\* CurrentAfterDeletingOther that never moves the pointer.
CurrentAfterDeletingOtherKept(currentVersionIndex, versionIndex) ==
  currentVersionIndex

\* CurrentAfterDeletingOther that always moves the pointer down.
CurrentAfterDeletingOtherShifted(currentVersionIndex, versionIndex) ==
  currentVersionIndex - 1

\* The pointer after another version than the current one was deleted.
CurrentAfterDeletingOther(currentVersionIndex, versionIndex) ==
  IF versionIndex < currentVersionIndex THEN currentVersionIndex - 1
  ELSE currentVersionIndex

\* deleteEventHistoryVersion(eventIndex, versionIndex): the store it leaves.
DeleteEventHistoryVersionResult(state, eventIndex, versionIndex) ==
  LET key == String(eventIndex)
  IN IF \/ ~Has(state.eventHistory, key)
        \/ versionIndex < 0
        \/ versionIndex >= Len(state.eventHistory[key].entries)
     THEN state
     ELSE
       LET history == state.eventHistory[key]
           wasCurrent == history.currentVersionIndex = versionIndex
           entries == Splice1(history.entries, versionIndex)
       IN IF IsLastVersion(history) THEN state
          ELSE IF wasCurrent
          THEN MirrorVersion(state, eventIndex, entries,
                             CurrentAfterDeletingCurrent(versionIndex))
          ELSE Store(state.events,
                     Put(state.eventHistory, key,
                         [entries |-> entries,
                          currentVersionIndex |->
                            CurrentAfterDeletingOther(
                              history.currentVersionIndex, versionIndex)]))

\* The key Object.entries yields first among `keys`: integer keys come in
\* ascending numeric order.
FirstKey(keys) ==
  CHOOSE k \in keys : \A j \in keys : ParseInt(k) <= ParseInt(j)

\* RekeyEntry that keeps every remaining history under its old key.
RekeyEntryKeepingKey(newHistory, histKey, histValue, eventIndex) ==
  IF ParsesToNaN(histKey) THEN newHistory
  ELSE IF ParseInt(histKey) # eventIndex
  THEN Put(newHistory, histKey, histValue)
  ELSE newHistory

\* One pass of deleteEvent's loop over Object.entries(state.eventHistory).
RekeyEntry(newHistory, histKey, histValue, eventIndex) ==
  IF ParsesToNaN(histKey) THEN newHistory
  ELSE
    LET histIndex == ParseInt(histKey)
    IN IF histIndex > eventIndex
       THEN Put(newHistory, String(histIndex - 1), histValue)
       ELSE IF histIndex < eventIndex
       THEN Put(newHistory, histKey, histValue)
       ELSE newHistory

RECURSIVE RekeyLoop(_, _, _, _)
RekeyLoop(keys, hist, eventIndex, newHistory) ==
  IF keys = {} THEN newHistory
  ELSE
    LET histKey == FirstKey(keys)
    IN RekeyLoop(keys \ {histKey}, hist, eventIndex,
                 RekeyEntry(newHistory, histKey, hist[histKey], eventIndex))

\* deleteEvent that leaves the History Store as it is.
DeleteEventKeepingKeys(state, eventIndex) ==
  IF eventIndex < 0 THEN state
  ELSE Store(Splice1(state.events, eventIndex), state.eventHistory)

\* deleteEvent without its guard: splice counts a negative start from the
\* end of the array, and every key is above a negative position.
DeleteEventUnguarded(state, eventIndex) ==
  LET key == String(eventIndex)
      start == IF eventIndex < 0
               THEN Max(Len(state.events) + eventIndex, 0)
               ELSE eventIndex
      cleaned ==
        IF Has(state.eventHistory, key)
        THEN Delete(state.eventHistory, key)
        ELSE state.eventHistory
  IN Store(Splice1(state.events, start),
           RekeyLoop(DOMAIN cleaned, cleaned, eventIndex, EmptyObject))

\* deleteEvent(eventIndex): the store it leaves.
DeleteEventResult(state, eventIndex) ==
  IF eventIndex < 0 THEN state
  ELSE
    LET key == String(eventIndex)
        cleaned ==
          IF Has(state.eventHistory, key)
          THEN Delete(state.eventHistory, key)
          ELSE state.eventHistory
    IN Store(Splice1(state.events, eventIndex),
             RekeyLoop(DOMAIN cleaned, cleaned, eventIndex, EmptyObject))

\* ----------------------------------------------------------------- paging
\* const pageSize = 5 of EventHistoryViewer, the default of the store's
\* paging functions.
pageSize == 5

Min(a, b) == IF a <= b THEN a ELSE b

\* slice whose end index is the last one taken.
SliceInclusive(arr, start, end) ==
  LET len == Len(arr)
      from == IF start < 0 THEN Max(len + start, 0) ELSE Min(start, len)
      to == IF end < 0 THEN Max(len + end + 1, 0) ELSE Min(end + 1, len)
  IN IF from < to THEN SubSeq(arr, from + 1, to) ELSE <<>>

\* arr.slice(start, end): a negative index counts from the end of the
\* array, an index past the end is the end, and nothing is taken when the
\* start is not before the end.
Slice(arr, start, end) ==
  LET len == Len(arr)
      from == IF start < 0 THEN Max(len + start, 0) ELSE Min(start, len)
      to == IF end < 0 THEN Max(len + end, 0) ELSE Min(end, len)
  IN IF from < to THEN SubSeq(arr, from + 1, to) ELSE <<>>

\* A page count that leaves out the page that is not full.
CeilAsFloor(a, b) == a \div b

\* Math.ceil(a / b) for b > 0.
Ceil(a, b) == -((-a) \div b)

\* getEventHistoryPage(eventIndex, page, pageSize) on the given state.
GetEventHistoryPage(state, eventIndex, pageIndex, size) ==
  LET key == String(eventIndex)
  IN IF ~Has(state.eventHistory, key) THEN <<>>
     ELSE Slice(state.eventHistory[key].entries, pageIndex * size,
                pageIndex * size + size)

\* getEventHistoryPageCount(eventIndex, pageSize) on the given state.
GetEventHistoryPageCount(state, eventIndex, size) ==
  LET key == String(eventIndex)
  IN IF ~Has(state.eventHistory, key) THEN 0
     ELSE Ceil(Len(state.eventHistory[key].entries), size)

\* ---------------------------------------------------------------- bounds
RECURSIVE SumEntries(_, _)
SumEntries(keys, hist) ==
  IF keys = {} THEN 0
  ELSE LET k == CHOOSE x \in keys : TRUE
       IN Len(hist[k].entries) + SumEntries(keys \ {k}, hist)

WithinBounds(state) ==
  /\ \A k \in DOMAIN state.eventHistory :
       Len(state.eventHistory[k].entries) <= MaxEntries
  /\ SumEntries(DOMAIN state.eventHistory, state.eventHistory) <= MaxTotal

\* --------------------------------------------------------------- actions
\* The record of a call: the operation and its arguments.
Idle == [op |-> "idle"]

\* The calls not followed: the round trip is followed only where a
\* specification starts with Watching.
NotWatching == [stage |-> "off"]
Watching == [stage |-> "watching"]

\* How far the calls are into the round trip addEventHistoryVersion(p, e,
\* "edit"), selectEventHistoryVersion(p, 0), selectEventHistoryVersion(p,
\* lastIndex) once `op` has run and left `result`; lastIndex is the index of
\* the version the first call added.
Observed(trip, op, result) ==
  IF trip = NotWatching THEN NotWatching
  ELSE IF /\ op.op = "addEventHistoryVersion"
          /\ op.type = "edit"
          /\ Has(result.eventHistory, String(op.eventIndex))
  THEN [stage |-> "added", eventIndex |-> op.eventIndex,
        newEvent |-> op.newEvent,
        lastIndex |->
          Len(result.eventHistory[String(op.eventIndex)].entries) - 1]
  ELSE IF /\ trip.stage = "added"
          /\ op = [op |-> "selectEventHistoryVersion",
                   eventIndex |-> trip.eventIndex, versionIndex |-> 0]
  THEN [trip EXCEPT !.stage = "first"]
  ELSE IF /\ trip.stage = "first"
          /\ op = [op |-> "selectEventHistoryVersion",
                   eventIndex |-> trip.eventIndex,
                   versionIndex |-> trip.lastIndex]
  THEN [trip EXCEPT !.stage = "last"]
  ELSE Watching

\* The recipe's result holds no more version entries than the store.
NotGrowing(result) ==
  /\ DOMAIN result.eventHistory \subseteq DOMAIN eventHistory
  /\ \A k \in DOMAIN result.eventHistory :
       Len(result.eventHistory[k].entries) <= Len(eventHistory[k].entries)

\* set(recipe), called from an event handler of the user interface: the
\* recipe's result replaces the log and the History Store in one step.
CommitStore(result, op) ==
  /\ lastOp = Idle
  /\ IF WithinBounds(result) THEN TRUE ELSE NotGrowing(result)
  /\ events' = (IF result.threw THEN events ELSE result.events)
  /\ eventHistory' =
       (IF result.threw THEN eventHistory ELSE result.eventHistory)
  /\ error' = result.threw
  /\ lastOp' = op
  /\ pre' = Current
  /\ roundTrip' = Observed(roundTrip, op, result)
  /\ UNCHANGED <<steps, isRegenerating>>

\* set(recipe) from a handler that leaves the history viewer's page alone.
Commit(result, op) ==
  /\ CommitStore(result, op)
  /\ UNCHANGED <<page, historyPagination>>

\* Positions an operation is called with: every position of the log, the
\* one before the first and the two after the last.
Positions == -1 .. Len(events) + 1

\* Version indices an operation on eventIndex is called with: every index of
\* that position's history, the one before and the one after.
VersionIndices(eventIndex) ==
  -1 .. (IF Has(eventHistory, String(eventIndex))
         THEN Len(eventHistory[String(eventIndex)].entries)
         ELSE 0)

\* The log the store starts with: a log of n events, no histories.
InitialLog(n) == [i \in 1 .. n |-> Timeline[((i - 1) % Len(Timeline)) + 1]]

\* The store after construction, holding a log and no history; no call yet.
InitStore(logs) ==
  /\ events \in logs
  /\ eventHistory = EmptyObject
  /\ lastOp = Idle
  /\ pre = Store(events, eventHistory)
  /\ error = FALSE

\* No setAsync call is pending and no view is regenerating.
InitAsync ==
  /\ steps = <<>>
  /\ isRegenerating = {}

\* useState(0) of EventHistoryViewer; historyPagination: undefined.
InitViewer ==
  /\ page = 0
  /\ historyPagination = Undefined

Init ==
  /\ InitStore({InitialLog(n) : n \in 0 .. MaxLog})
  /\ InitAsync
  /\ InitViewer
  /\ roundTrip = NotWatching

EnsureEventHistory ==
  \E eventIndex \in Positions :
    Commit(EnsureEventHistoryResult(Current, eventIndex),
           [op |-> "ensureEventHistory", eventIndex |-> eventIndex])

AddEventHistoryVersion ==
  \E eventIndex \in Positions, version \in NewVersions :
    Commit(AddEventHistoryVersionResult(Current, eventIndex, version[1],
                                        version[2]),
           [op |-> "addEventHistoryVersion", eventIndex |-> eventIndex,
            newEvent |-> version[1], type |-> version[2]])

SelectEventHistoryVersion ==
  \E eventIndex \in Positions :
   \E versionIndex \in VersionIndices(eventIndex) :
    Commit(SelectEventHistoryVersionResult(Current, eventIndex,
                                           versionIndex),
           [op |-> "selectEventHistoryVersion", eventIndex |-> eventIndex,
            versionIndex |-> versionIndex])

DeleteEventHistoryVersion ==
  \E eventIndex \in Positions :
   \E versionIndex \in VersionIndices(eventIndex) :
    Commit(DeleteEventHistoryVersionResult(Current, eventIndex,
                                           versionIndex),
           [op |-> "deleteEventHistoryVersion", eventIndex |-> eventIndex,
            versionIndex |-> versionIndex])

DeleteEvent ==
  \E eventIndex \in Positions :
    Commit(DeleteEventResult(Current, eventIndex),
           [op |-> "deleteEvent", eventIndex |-> eventIndex])

\* The operation returns and its event handler ends: the record of the call
\* is dropped, the store stays as it is.
Return ==
  /\ lastOp # Idle
  /\ lastOp' = Idle
  /\ pre' = Current
  /\ error' = FALSE
  /\ UNCHANGED <<events, eventHistory, roundTrip, steps, isRegenerating,
                 page, historyPagination>>

Next ==
  \/ EnsureEventHistory
  \/ AddEventHistoryVersion
  \/ SelectEventHistoryVersion
  \/ DeleteEventHistoryVersion
  \/ DeleteEvent
  \/ Return

Spec == Init /\ [][Next]_vars

\* The same operations, with the round trip followed.
InitRoundTrip ==
  /\ InitStore({InitialLog(n) : n \in 0 .. MaxLog})
  /\ InitAsync
  /\ InitViewer
  /\ roundTrip = Watching

RoundTripSpec == InitRoundTrip /\ [][Next]_vars

\* ------------------------------------------------------ regeneration
\* The narrations of the log the regenerations start from, and the narration
\* the generation returns.
Dusk == NarrationEvent("dusk falls")
Retold == NarrationEvent("the tale, retold")
Story == <<Dawn, Dusk>>
Generated == {Retold}

\* A setAsync call queued on setAsyncMutex.
WaitingStep(eventIndex) == [eventIndex |-> eventIndex, phase |-> "waiting"]

\* A setAsync call that holds the mutex: `state` is what get() returned when
\* it started, `draft` the draft the updater works on.
RunningStep(eventIndex, state) ==
  [eventIndex |-> eventIndex, phase |-> "generating", state |-> state,
   draft |-> state]

\* A mutex that lets every call in.
MutexIsFreeAlways(calls) == TRUE

\* setAsyncMutex is free when no call holds it.
MutexIsFree(calls) == \A i \in 1 .. Len(calls) : calls[i].phase = "waiting"

\* setAsync(updater): the call runs at once on a free mutex and is queued
\* behind the others on a held one.
Submit(calls, eventIndex, state) ==
  Append(calls, IF MutexIsFree(calls)
                THEN RunningStep(eventIndex, state)
                ELSE WaitingStep(eventIndex))

\* A mutex that keeps the calls behind an ended one waiting.
ReleaseKeepsWaiting(calls, i, state) ==
  SubSeq(calls, 1, i - 1) \o SubSeq(calls, i + 1, Len(calls))

\* runExclusive ends for call i: the mutex goes to the call that has waited
\* longest, which reads the store as it is now.
Release(calls, i, state) ==
  LET rest == SubSeq(calls, 1, i - 1) \o SubSeq(calls, i + 1, Len(calls))
  IN IF rest # <<>> /\ MutexIsFree(rest)
     THEN [rest EXCEPT ![1] = RunningStep(rest[1].eventIndex, state)]
     ELSE rest

\* A flag that is set and never cleared.
SetIsRegeneratingOnce(flags, eventIndex, value) == flags \cup {eventIndex}

\* setIsRegenerating(value) of the view of a position.
SetIsRegenerating(flags, eventIndex, value) ==
  IF value THEN flags \cup {eventIndex} ELSE flags \ {eventIndex}

\* The guard of handleRegenerate without the isRegenerating flag.
RejectedIfNegative(flags, eventIndex) == eventIndex < 0

\* The guard of handleRegenerate: isRegenerating || eventIndex < 0.
RegenerateIsRejected(flags, eventIndex) ==
  eventIndex \in flags \/ eventIndex < 0

\* The positions a NarrationEventView is shown for, and the one before the
\* first.
RegeneratePositions ==
  {-1} \cup {i \in 0 .. Len(events) - 1 : events[i + 1].type = "narration"}

\* NarrationEventView.handleRegenerate up to its await: the guard, the flag,
\* ensureEventHistory, and the setAsync call of regenerateNarration.
HandleRegenerate ==
  \E eventIndex \in RegeneratePositions :
    LET rejected == RegenerateIsRejected(isRegenerating, eventIndex)
        ensured == EnsureEventHistoryResult(Current, eventIndex)
    IN /\ lastOp = Idle
       /\ WithinBounds(ensured)
       /\ lastOp' = [op |-> "handleRegenerate", eventIndex |-> eventIndex,
                     rejected |-> rejected]
       /\ pre' = Current
       /\ error' = FALSE
       /\ IF rejected
          THEN UNCHANGED <<events, eventHistory, steps, isRegenerating>>
          ELSE /\ events' = ensured.events
               /\ eventHistory' = ensured.eventHistory
               /\ isRegenerating' =
                    SetIsRegenerating(isRegenerating, eventIndex, TRUE)
               /\ steps' = Submit(steps, eventIndex, ensured)
       /\ UNCHANGED <<roundTrip, page, historyPagination>>

\* What the updater does with the generated event:
\* addVersion(position, result, "regenerate").
Regenerated(draft, eventIndex, newEvent) ==
  AddEventHistoryVersionResult(draft, eventIndex, newEvent, "regenerate")

\* The generation call of a running step returns an event and the updater
\* applies it to its draft.
GenerationResolves ==
  \E i \in 1 .. Len(steps), newEvent \in Generated :
    /\ lastOp = Idle
    /\ steps[i].phase = "generating"
    /\ LET draft == Regenerated(steps[i].draft, steps[i].eventIndex,
                                newEvent)
       IN /\ WithinBounds(draft)
          /\ steps' = [steps EXCEPT ![i] =
                         [eventIndex |-> steps[i].eventIndex,
                          phase |-> "generated",
                          state |-> steps[i].state,
                          draft |-> draft,
                          newEvent |-> newEvent]]
    /\ UNCHANGED <<events, eventHistory, lastOp, pre, error, roundTrip,
                   isRegenerating, page, historyPagination>>

\* The updater of a running step writes what it has so far to the store, for
\* the user interface to show.
UpdaterWritesStore ==
  \E i \in 1 .. Len(steps) :
    /\ lastOp = Idle
    /\ steps[i].phase = "generated"
    /\ events' = steps[i].draft.events
    /\ eventHistory' = steps[i].draft.eventHistory
    /\ pre' = steps[i].draft
    /\ UNCHANGED <<lastOp, error, roundTrip, steps, isRegenerating, page,
                   historyPagination>>

\* A catch block that leaves the store as the step left it.
NotRolledBack(current, step) == current

\* catch (error) { set(state); throw error; }
RolledBack(current, step) == step.state

\* A commit that writes the draft's log and keeps the histories of the store.
CommittedLogOnly(current, step) ==
  Store(step.draft.events, current.eventHistory)

\* A commit that writes back what get() had returned.
CommittedSnapshot(current, step) == step.state

\* const newState = finishDraft(draft); set(newState).
Committed(current, step) == step.draft

\* isAbortError(error): the error is the one a cancelled generation throws.
IsAbortError(reason) == reason = "abort"

\* A catch block that logs every error.
ReportsAlways(reason) == TRUE

\* The catch block of handleRegenerate: console.error unless isAbortError.
Reports(reason) == ~IsAbortError(reason)

\* The updater of a running step throws, because the generation was aborted
\* or failed or the state it produced was rejected: setAsync rolls back,
\* releases the mutex and rejects, and handleRegenerate reports the error
\* and clears its flag.
SetAsyncThrows ==
  \E i \in 1 .. Len(steps), reason \in {"abort", "failure"} :
    /\ lastOp = Idle
    /\ steps[i].phase # "waiting"
    /\ LET state == RolledBack(Current, steps[i])
       IN /\ events' = state.events
          /\ eventHistory' = state.eventHistory
          /\ steps' = Release(steps, i, state)
    /\ isRegenerating' =
         SetIsRegenerating(isRegenerating, steps[i].eventIndex, FALSE)
    /\ lastOp' = [op |-> "setAsyncThrew",
                  eventIndex |-> steps[i].eventIndex,
                  reason |-> reason, phase |-> steps[i].phase,
                  state |-> steps[i].state,
                  reported |-> Reports(reason)]
    /\ pre' = Current
    /\ error' = TRUE
    /\ UNCHANGED <<roundTrip, page, historyPagination>>

\* The updater of a running step returns: setAsync commits the draft and
\* releases the mutex, and handleRegenerate clears its flag.
SetAsyncCommits ==
  \E i \in 1 .. Len(steps) :
    /\ lastOp = Idle
    /\ steps[i].phase = "generated"
    /\ LET state == Committed(Current, steps[i])
       IN /\ events' = state.events
          /\ eventHistory' = state.eventHistory
          /\ steps' = Release(steps, i, state)
    /\ isRegenerating' =
         SetIsRegenerating(isRegenerating, steps[i].eventIndex, FALSE)
    /\ lastOp' = [op |-> "setAsyncCommitted",
                  eventIndex |-> steps[i].eventIndex,
                  newEvent |-> steps[i].newEvent,
                  state |-> steps[i].state]
    /\ pre' = Current
    /\ error' = FALSE
    /\ UNCHANGED <<roundTrip, page, historyPagination>>

\* The positions an event view is shown for.
ViewPositions == 0 .. Len(events) - 1

\* The versions EventHistoryViewer lists for a position: the entries of the
\* page it shows, each at page * pageSize + entryIndex.
ListedVersions(eventIndex) ==
  LET pageEntries == GetEventHistoryPage(Current, eventIndex, page, pageSize)
  IN {page * pageSize + entryIndex : entryIndex \in 0 .. Len(pageEntries) - 1}

\* NarrationEventView.handleShowHistory.
HandleShowHistory ==
  \E eventIndex \in ViewPositions :
    Commit(EnsureEventHistoryResult(Current, eventIndex),
           [op |-> "ensureEventHistory", eventIndex |-> eventIndex])

\* NarrationEventView.handleDelete.
HandleDelete ==
  \E eventIndex \in ViewPositions :
    Commit(DeleteEventResult(Current, eventIndex),
           [op |-> "deleteEvent", eventIndex |-> eventIndex])

\* EventHistoryViewer.handleSelectVersion.
HandleSelectVersion ==
  \E eventIndex \in ViewPositions :
   \E versionIndex \in ListedVersions(eventIndex) :
    Commit(SelectEventHistoryVersionResult(Current, eventIndex,
                                           versionIndex),
           [op |-> "selectEventHistoryVersion", eventIndex |-> eventIndex,
            versionIndex |-> versionIndex])

\* setHistoryPagination(eventIndex, page, pageSize).
SetHistoryPagination(eventIndex, pageIndex, size) ==
  [eventIndex |-> eventIndex, page |-> pageIndex, pageSize |-> size]

\* A viewer that stays on its page whatever was deleted.
PageAfterDeletingKept(pageIndex, newTotalPages) == pageIndex

\* "If we deleted an entry and the current page becomes empty, go to
\* previous page".
PageAfterDeleting(pageIndex, newTotalPages) ==
  IF pageIndex >= newTotalPages /\ pageIndex > 0
  THEN pageIndex - 1
  ELSE pageIndex

\* EventHistoryViewer.handleDeleteVersion.
HandleDeleteVersion ==
  \E eventIndex \in ViewPositions :
   \E versionIndex \in ListedVersions(eventIndex) :
    LET key == String(eventIndex)
        result == DeleteEventHistoryVersionResult(Current, eventIndex,
                                                  versionIndex)
        newPage ==
          IF result.threw \/ ~Has(result.eventHistory, key) THEN page
          ELSE PageAfterDeleting(
                 page, Ceil(Len(result.eventHistory[key].entries), pageSize))
    IN /\ CommitStore(result,
                      [op |-> "deleteEventHistoryVersion",
                       eventIndex |-> eventIndex,
                       versionIndex |-> versionIndex, page |-> page])
       /\ page' = newPage
       /\ historyPagination' =
            (IF newPage # page
             THEN SetHistoryPagination(eventIndex, newPage, pageSize)
             ELSE historyPagination)

AsyncNext ==
  \/ HandleShowHistory
  \/ HandleDelete
  \/ HandleSelectVersion
  \/ HandleDeleteVersion
  \/ Return
  \/ HandleRegenerate
  \/ GenerationResolves
  \/ UpdaterWritesStore
  \/ SetAsyncThrows
  \/ SetAsyncCommits

InitAsyncSpec ==
  /\ InitStore({Story})
  /\ InitAsync
  /\ InitViewer
  /\ roundTrip = NotWatching

\* The handlers of the narration views and their history viewers, together
\* with regenerations.
AsyncSpec == InitAsyncSpec /\ [][AsyncNext]_vars

\* The same, where a call that was made returns and a generation that was
\* started ends, by returning or by throwing.
AsyncFairSpec ==
  /\ AsyncSpec
  /\ WF_vars(Return)
  /\ SF_vars(SetAsyncThrows \/ SetAsyncCommits)

\* --------------------------------------------------------- the pages
\* A narration as first told (i = 0) and as told by its i-th regeneration.
Telling(i) == NarrationEvent(String(i))

\* The history of a narration regenerated n - 1 times.
ListedHistory(n) ==
  [entries |-> [i \in 1 .. n |-> Entry(Telling(i - 1), "regenerate")],
   currentVersionIndex |-> n - 1]

\* The store of two narrations whose first has a history of n entries, or
\* none for n = 0, and whose second has none.
ListedStore(n) ==
  IF n = 0 THEN Store(<<Telling(0), Telling(0)>>, EmptyObject)
  ELSE Store(<<Telling(n - 1), Telling(0)>>,
             Put(EmptyObject, String(0), ListedHistory(n)))

InitListed(lengths) ==
  /\ \E n \in lengths :
       /\ events = ListedStore(n).events
       /\ eventHistory = ListedStore(n).eventHistory
  /\ lastOp = Idle
  /\ pre = Store(events, eventHistory)
  /\ error = FALSE
  /\ InitAsync
  /\ InitViewer
  /\ roundTrip = NotWatching

\* The page sizes the paging functions are called with.
PageSizes == {1, 2, pageSize}

\* A call that reads the store and returns a value.
Read(op) ==
  /\ lastOp = Idle
  /\ lastOp' = op
  /\ pre' = Current
  /\ error' = FALSE
  /\ UNCHANGED <<events, eventHistory, roundTrip, steps, isRegenerating,
                 page, historyPagination>>

CallGetEventHistoryPage ==
  \E eventIndex \in ViewPositions, pageIndex \in -MaxPage .. MaxPage,
     size \in PageSizes :
    Read([op |-> "getEventHistoryPage", eventIndex |-> eventIndex,
          page |-> pageIndex, pageSize |-> size,
          result |-> GetEventHistoryPage(Current, eventIndex, pageIndex,
                                         size)])

CallGetEventHistoryPageCount ==
  \E eventIndex \in ViewPositions, size \in PageSizes :
    Read([op |-> "getEventHistoryPageCount", eventIndex |-> eventIndex,
          pageSize |-> size,
          result |-> GetEventHistoryPageCount(Current, eventIndex, size)])

PagingNext ==
  \/ CallGetEventHistoryPage
  \/ CallGetEventHistoryPageCount
  \/ Return

\* The paging functions called on histories of every length.
PagingSpec == InitListed(0 .. MaxListed) /\ [][PagingNext]_vars

\* EventHistoryViewer.handlePrevious.
HandlePrevious ==
  \E eventIndex \in ViewPositions :
    /\ lastOp = Idle
    /\ Has(eventHistory, String(eventIndex))
    /\ page > 0
    /\ page' = page - 1
    /\ historyPagination' = SetHistoryPagination(eventIndex, page - 1, pageSize)
    /\ UNCHANGED <<events, eventHistory, lastOp, pre, error, roundTrip,
                   steps, isRegenerating>>

\* EventHistoryViewer.handleNext.
HandleNext ==
  \E eventIndex \in ViewPositions :
    /\ lastOp = Idle
    /\ Has(eventHistory, String(eventIndex))
    /\ page < GetEventHistoryPageCount(Current, eventIndex, pageSize) - 1
    /\ page' = page + 1
    /\ historyPagination' = SetHistoryPagination(eventIndex, page + 1, pageSize)
    /\ UNCHANGED <<events, eventHistory, lastOp, pre, error, roundTrip,
                   steps, isRegenerating>>

ViewerNext ==
  \/ HandlePrevious
  \/ HandleNext
  \/ HandleDeleteVersion
  \/ Return

\* The history viewer opened on the first narration, whose history has any
\* length.
ViewerSpec == InitListed(1 .. MaxListed) /\ [][ViewerNext]_vars

\* ------------------------------------------------------------ properties
\* What the last operation was called with, and what it found and left.
Called(name) == lastOp.op = name
Position == lastOp.eventIndex
Version == lastOp.versionIndex
PositionKey == String(lastOp.eventIndex)
HadHistory == Has(pre.eventHistory, PositionKey)
HasHistory == Has(eventHistory, PositionKey)
HistoryBefore == pre.eventHistory[PositionKey]
HistoryAfter == eventHistory[PositionKey]
HeldEvent == 0 <= Position /\ Position < Len(pre.events)

\* `after` is `before` with the element at index i removed.
RemovedAt(before, after, i) ==
  /\ Len(after) = Len(before) - 1
  /\ \A j \in 0 .. Len(before) - 1 :
       /\ j < i => At(after, j) = At(before, j)
       /\ j > i => At(after, j - 1) = At(before, j)

\* The positions (as numbers) whose key is in a History Store.
KeyedPositions(hist) == {k \in -1 .. MaxLog + 1 : Has(hist, String(k))}

\* A valid call of deleteEventHistoryVersion: the history exists, the index
\* is in range and it is not the only version.
DeletedVersion ==
  /\ Called("deleteEventHistoryVersion")
  /\ HadHistory
  /\ 0 <= Version /\ Version < Len(HistoryBefore.entries)
  /\ Len(HistoryBefore.entries) > 1

\* C1: for every position that has a history, the event in the log at that
\* position is the event of the history's current version.
DivergenceInvariant ==
  \A k \in DOMAIN eventHistory :
    LET history == eventHistory[k]
        current == At(history.entries, history.currentVersionIndex)
    IN /\ current # Undefined
       /\ At(events, ParseInt(k)) = current.event

\* A history of several versions was re-keyed by deleteEvent and another
\* version than its last was selected before.
DivergenceWitness ==
  /\ Called("deleteEvent")
  /\ \E k \in DOMAIN eventHistory :
       /\ ParseInt(k) >= Position
       /\ Len(eventHistory[k].entries) >= 2
       /\ eventHistory[k].currentVersionIndex = 0

\* C2: every history has at least one entry and its pointer is an index of
\* its entries.
HistoriesWellFormed ==
  \A k \in DOMAIN eventHistory :
    /\ Len(eventHistory[k].entries) >= 1
    /\ 0 <= eventHistory[k].currentVersionIndex
    /\ eventHistory[k].currentVersionIndex < Len(eventHistory[k].entries)

\* The current, last version of a history was just deleted.
HistoriesWellFormedWitness ==
  /\ DeletedVersion
  /\ Version = Len(HistoryBefore.entries) - 1
  /\ Version = HistoryBefore.currentVersionIndex
  /\ HasHistory

DeleteEventSplices ==
  Called("deleteEvent") /\ HeldEvent =>
    RemovedAt(pre.events, events, Position)

\* The middle event of a log of three was deleted.
DeleteEventSplicesWitness ==
  /\ Called("deleteEvent")
  /\ Position = 1
  /\ Len(pre.events) = 3
  /\ events = <<pre.events[1], pre.events[3]>>
  /\ pre.events[1] # pre.events[3]

\* C5: deleting the current version removes the entry, makes
\* max(0, versionIndex - 1) the current index and writes the event of the
\* new current entry into the log.
DeleteCurrentVersion ==
  DeletedVersion /\ Version = HistoryBefore.currentVersionIndex =>
    /\ HasHistory
    /\ RemovedAt(HistoryBefore.entries, HistoryAfter.entries, Version)
    /\ HistoryAfter.currentVersionIndex =
         (IF Version - 1 > 0 THEN Version - 1 ELSE 0)
    /\ At(events, Position) =
         At(HistoryAfter.entries, HistoryAfter.currentVersionIndex).event

\* Three versions, the third current, and it is deleted: the second is
\* current now and the displayed event changed.
DeleteCurrentVersionWitness ==
  /\ DeletedVersion
  /\ Len(HistoryBefore.entries) = 3
  /\ HistoryBefore.currentVersionIndex = 2
  /\ Version = 2
  /\ HistoryAfter.currentVersionIndex = 1
  /\ At(events, Position) # At(pre.events, Position)

\* C6: deleting a version before the current one removes the entry, moves
\* the pointer down by one, so that the same entry stays current, and leaves
\* the log as it was.
DeleteVersionBeforeCurrent ==
  DeletedVersion /\ Version < HistoryBefore.currentVersionIndex =>
    /\ HasHistory
    /\ RemovedAt(HistoryBefore.entries, HistoryAfter.entries, Version)
    /\ HistoryAfter.currentVersionIndex =
         HistoryBefore.currentVersionIndex - 1
    /\ At(HistoryAfter.entries, HistoryAfter.currentVersionIndex) =
         At(HistoryBefore.entries, HistoryBefore.currentVersionIndex)
    /\ events = pre.events

\* Three versions, the third current, and the second is deleted.
DeleteVersionBeforeCurrentWitness ==
  /\ DeletedVersion
  /\ Len(HistoryBefore.entries) = 3
  /\ HistoryBefore.currentVersionIndex = 2
  /\ Version = 1
  /\ HistoryAfter.currentVersionIndex = 1

\* C7: deleting a version after the current one removes the entry and
\* leaves the pointer and the log as they were.
DeleteVersionAfterCurrent ==
  DeletedVersion /\ Version > HistoryBefore.currentVersionIndex =>
    /\ HasHistory
    /\ RemovedAt(HistoryBefore.entries, HistoryAfter.entries, Version)
    /\ HistoryAfter.currentVersionIndex = HistoryBefore.currentVersionIndex
    /\ events = pre.events

\* Three versions, the first current, and the second is deleted.
DeleteVersionAfterCurrentWitness ==
  /\ DeletedVersion
  /\ Len(HistoryBefore.entries) = 3
  /\ HistoryBefore.currentVersionIndex = 0
  /\ Version = 1
  /\ Len(HistoryAfter.entries) = 2

\* C8: deleteEventHistoryVersion on a history of exactly one entry changes
\* nothing, whatever the version index, and raises no error.
DeleteSoleVersionRejected ==
  /\ Called("deleteEventHistoryVersion")
  /\ HadHistory
  /\ Len(HistoryBefore.entries) = 1
  => /\ eventHistory = pre.eventHistory
     /\ events = pre.events
     /\ error = FALSE

\* The only version of a history, index 0, was asked to be deleted.
DeleteSoleVersionRejectedWitness ==
  /\ Called("deleteEventHistoryVersion")
  /\ HadHistory
  /\ Len(HistoryBefore.entries) = 1
  /\ Version = 0

\* After addEventHistoryVersion the position's history ends with the new
\* version, which is current and mirrored in the log.
VersionAdded ==
  /\ HasHistory
  /\ HistoryAfter.entries # <<>>
  /\ HistoryAfter.entries[Len(HistoryAfter.entries)] =
       [event |-> lastOp.newEvent, type |-> lastOp.type]
  /\ HistoryAfter.currentVersionIndex = Len(HistoryAfter.entries) - 1
  /\ At(events, Position) = lastOp.newEvent

\* C9 as stated: for every position >= 0, after addEventHistoryVersion the
\* history at the position ends with the new version, which is current and
\* mirrored in the log.
AddVersionAtAnyPosition ==
  Called("addEventHistoryVersion") /\ Position >= 0 => VersionAdded

\* C9 as amended: for every position that holds an event, after
\* addEventHistoryVersion the history at the position ends with the new
\* version, of the given kind, which is current and mirrored in the log.
AddVersionAtEvent ==
  Called("addEventHistoryVersion") /\ HeldEvent => VersionAdded

\* A third version, an action given as regenerated, was added to a history
\* of two.
AddVersionAtEventWitness ==
  /\ Called("addEventHistoryVersion")
  /\ HeldEvent
  /\ HadHistory
  /\ Len(HistoryBefore.entries) = 2
  /\ lastOp.type = "regenerate"
  /\ lastOp.newEvent = GoEast
  /\ Len(HistoryAfter.entries) = 3

\* C10: addEventHistoryVersion on a position that holds an event and has no
\* history leaves a history of exactly two entries: the event that was in
\* the log, then the new event, which is current.
AddVersionSeedsFirst ==
  Called("addEventHistoryVersion") /\ HeldEvent /\ ~HadHistory =>
    /\ HasHistory
    /\ Len(HistoryAfter.entries) = 2
    /\ HistoryAfter.entries[1].event = At(pre.events, Position)
    /\ HistoryAfter.entries[2].event = lastOp.newEvent
    /\ HistoryAfter.currentVersionIndex = 1
    /\ At(events, Position) = lastOp.newEvent

\* The log [go north] with no history, and "go east" added as an edit.
AddVersionSeedsFirstWitness ==
  /\ Called("addEventHistoryVersion")
  /\ pre.events = <<GoNorth>>
  /\ pre.eventHistory = EmptyObject
  /\ Position = 0
  /\ lastOp.newEvent = GoEast
  /\ lastOp.type = "edit"
  /\ Len(HistoryAfter.entries) = 2
  /\ HistoryAfter.currentVersionIndex = 1
  /\ events = <<GoEast>>

\* C11: ensureEventHistory on a position that has a history changes nothing,
\* and a second call right after a first leaves what the first left.
EnsureIsIdempotent ==
  /\ Called("ensureEventHistory") /\ HadHistory =>
       /\ eventHistory = pre.eventHistory
       /\ events = pre.events
  /\ \A p \in -1 .. Len(events) + 1 :
       EnsureEventHistoryResult(EnsureEventHistoryResult(Current, p), p) =
         EnsureEventHistoryResult(Current, p)

\* ensureEventHistory was called on a position whose history is the untouched
\* one a first call left: one entry, the event of the log.
EnsureIsIdempotentWitness ==
  /\ Called("ensureEventHistory")
  /\ HeldEvent
  /\ HadHistory
  /\ HistoryBefore.entries = <<HistoryAfter.entries[1]>>
  /\ HistoryBefore.entries[1].event = At(events, Position)
  /\ Len(HistoryAfter.entries) = 1

\* C12: ensureEventHistory on a position that holds an event and has no
\* history creates a history of exactly one entry, the event of the log, of
\* kind edit for an action and regenerate otherwise, with the pointer at 0,
\* and leaves the log as it was.
EnsureSeedsHistory ==
  Called("ensureEventHistory") /\ HeldEvent /\ ~HadHistory =>
    /\ HasHistory
    /\ Len(HistoryAfter.entries) = 1
    /\ HistoryAfter.entries[1].event = At(pre.events, Position)
    /\ HistoryAfter.entries[1].type =
         (IF At(pre.events, Position).type = "action"
          THEN "edit" ELSE "regenerate")
    /\ HistoryAfter.currentVersionIndex = 0
    /\ events = pre.events

\* A history was created for a narration event.
EnsureSeedsHistoryWitness ==
  /\ Called("ensureEventHistory")
  /\ HeldEvent
  /\ ~HadHistory
  /\ At(pre.events, Position) = Dawn
  /\ HasHistory
  /\ HistoryAfter.entries[1].type = "regenerate"

\* A valid call of selectEventHistoryVersion: the history exists and the
\* index is in range.
SelectedVersion ==
  /\ Called("selectEventHistoryVersion")
  /\ HadHistory
  /\ 0 <= Version /\ Version < Len(HistoryBefore.entries)

\* C13: selectEventHistoryVersion with an index in range makes that version
\* current, writes its event into the log and leaves the entries as they
\* were.
SelectMovesPointer ==
  SelectedVersion =>
    /\ HasHistory
    /\ HistoryAfter.currentVersionIndex = Version
    /\ At(events, Position) = At(HistoryBefore.entries, Version).event
    /\ HistoryAfter.entries = HistoryBefore.entries

\* The first of three versions was restored while the third was current: the
\* displayed event changed and the two newer versions are still there.
SelectMovesPointerWitness ==
  /\ SelectedVersion
  /\ Len(HistoryBefore.entries) = 3
  /\ HistoryBefore.currentVersionIndex = 2
  /\ Version = 0
  /\ At(events, Position) # At(pre.events, Position)
  /\ Len(HistoryAfter.entries) = 3

\* A call the operations ignore: a version index out of range or a position
\* without history for select and delete-version, a negative position for
\* ensure, add and deleteEvent.
InvalidCall ==
  \/ /\ Called("selectEventHistoryVersion")
          \/ Called("deleteEventHistoryVersion")
     /\ \/ ~HadHistory
        \/ Version < 0
        \/ Version >= Len(HistoryBefore.entries)
  \/ /\ \/ Called("ensureEventHistory")
        \/ Called("addEventHistoryVersion")
        \/ Called("deleteEvent")
     /\ Position < 0

\* C15: an invalid call leaves the log and the History Store as they were
\* and raises no error.
InvalidCallsAreNoOps ==
  InvalidCall =>
    /\ events = pre.events
    /\ eventHistory = pre.eventHistory
    /\ error = FALSE

\* deleteEvent(-1) was called on a log of three with a history at 0.
InvalidCallsAreNoOpsWitness ==
  /\ Called("deleteEvent")
  /\ Position = -1
  /\ Len(pre.events) = 3
  /\ Has(pre.eventHistory, String(0))

\* C16: addEventHistoryVersion, ensureEventHistory and
\* selectEventHistoryVersion keep every entry a history had, in place and
\* unaltered: what a history held before is a prefix of what it holds after.
EntriesAreAppendOnly ==
  \/ Called("addEventHistoryVersion")
  \/ Called("ensureEventHistory")
  \/ Called("selectEventHistoryVersion")
  => \A k \in DOMAIN pre.eventHistory :
       /\ Has(eventHistory, k)
       /\ Len(eventHistory[k].entries) >= Len(pre.eventHistory[k].entries)
       /\ SubSeq(eventHistory[k].entries, 1,
                 Len(pre.eventHistory[k].entries)) =
            pre.eventHistory[k].entries

\* A version was added to a history of two, whose two entries are still the
\* first two of three.
EntriesAreAppendOnlyWitness ==
  /\ Called("addEventHistoryVersion")
  /\ HadHistory
  /\ Len(HistoryBefore.entries) = 2
  /\ Len(HistoryAfter.entries) = 3
  /\ HistoryAfter.entries[3] # HistoryAfter.entries[2]

\* C14: once addEventHistoryVersion(p, e, "edit") has added a version, then
\* selectEventHistoryVersion(p, 0), then selectEventHistoryVersion(p,
\* lastIndex) with the index of the version added have run, the log holds e
\* at p and the pointer is lastIndex.
RoundTripRestores ==
  roundTrip.stage = "last" =>
    /\ At(events, roundTrip.eventIndex) = roundTrip.newEvent
    /\ Has(eventHistory, String(roundTrip.eventIndex))
    /\ eventHistory[String(roundTrip.eventIndex)].currentVersionIndex =
         roundTrip.lastIndex

\* The three calls have run, and the third one changed what the log showed:
\* the second had restored an event other than e.
RoundTripRestoresWitness ==
  /\ roundTrip.stage = "last"
  /\ Called("selectEventHistoryVersion")
  /\ roundTrip.lastIndex > 0
  /\ At(pre.events, roundTrip.eventIndex) # roundTrip.newEvent
  /\ pre.eventHistory[String(roundTrip.eventIndex)].currentVersionIndex = 0

\* A setAsync call has started and not ended.
InFlight == \E i \in 1 .. Len(steps) : steps[i].phase # "waiting"

\* The call whose updater runs is the one submitted first; every call
\* submitted after it waits.
StepsInSubmissionOrder ==
  \A i \in 1 .. Len(steps) : steps[i].phase # "waiting" <=> i = 1

\* The last call was a History Operation made from an event handler.
ManualOperation ==
  \/ Called("ensureEventHistory")
  \/ Called("selectEventHistoryVersion")
  \/ Called("deleteEventHistoryVersion")
  \/ Called("deleteEvent")

RollbackRestores ==
  Called("setAsyncThrew") =>
    /\ events = lastOp.state.events
    /\ eventHistory = lastOp.state.eventHistory
    /\ error = TRUE

\* The updater threw after it had applied the generated event and written
\* it to the store: the rollback took the new version out again.
RollbackRestoresWitness ==
  /\ Called("setAsyncThrew")
  /\ lastOp.phase = "generated"
  /\ Has(pre.eventHistory, PositionKey)
  /\ Has(lastOp.state.eventHistory, PositionKey)
  /\ Len(pre.eventHistory[PositionKey].entries) =
       Len(lastOp.state.eventHistory[PositionKey].entries) + 1
  /\ At(pre.events, Position) = Retold
  /\ At(events, Position) # Retold

\* A regeneration of the position has been asked for and has not ended.
Regenerating(eventIndex) ==
  \E i \in 1 .. Len(steps) : steps[i].eventIndex = eventIndex

\* C19: no two regenerations of one position are in flight, and
\* handleRegenerate called for a position whose regeneration has not ended
\* starts no generation and changes nothing.
OneRegenerationPerPosition ==
  [][/\ \A i, j \in 1 .. Len(steps') :
          steps'[i].eventIndex = steps'[j].eventIndex => i = j
     /\ lastOp'.op = "handleRegenerate" /\ Regenerating(lastOp'.eventIndex)
          => UNCHANGED <<events, eventHistory, steps, isRegenerating>>]_vars

\* handleRegenerate was called for a position whose generation is running,
\* and was rejected.
OneRegenerationPerPositionWitness ==
  /\ Called("handleRegenerate")
  /\ lastOp.rejected
  /\ \E i \in 1 .. Len(steps) :
       /\ steps[i].eventIndex = Position
       /\ steps[i].phase = "generating"

\* C20: when a regeneration has completed, the history of its position ends
\* with the generated event as a regenerate version, that version is current
\* and in the log, and the event the position held before the regeneration
\* is an earlier entry.
RegenerationAddsVersion ==
  Called("setAsyncCommitted") =>
    /\ HasHistory
    /\ HistoryAfter.entries[Len(HistoryAfter.entries)] =
         Entry(lastOp.newEvent, "regenerate")
    /\ HistoryAfter.currentVersionIndex = Len(HistoryAfter.entries) - 1
    /\ At(events, Position) = lastOp.newEvent
    /\ \E i \in 1 .. Len(HistoryAfter.entries) - 1 :
         HistoryAfter.entries[i].event = At(lastOp.state.events, Position)

\* The regeneration of the second narration, which had no history before,
\* has completed: its history is the narration and the generated event.
RegenerationAddsVersionWitness ==
  /\ Called("setAsyncCommitted")
  /\ Position = 1
  /\ At(lastOp.state.events, Position) = Dusk
  /\ HasHistory
  /\ HistoryAfter.entries =
       <<Entry(Dusk, "regenerate"), Entry(Retold, "regenerate")>>
  /\ At(events, Position) = Retold

\* The generation of a regeneration was cancelled.
Cancelled == Called("setAsyncThrew") /\ IsAbortError(lastOp.reason)

\* The generation of a regeneration failed for another reason.
Failed == Called("setAsyncThrew") /\ ~IsAbortError(lastOp.reason)

\* C21: when the generation of a regeneration is cancelled, the log is as it
\* was when the regeneration started, the position's history has no version
\* more than it had then, and nothing is reported.
CancellationIsSilent ==
  Cancelled =>
    /\ events = lastOp.state.events
    /\ HasHistory <=> Has(lastOp.state.eventHistory, PositionKey)
    /\ HasHistory =>
         HistoryAfter.entries = lastOp.state.eventHistory[PositionKey].entries
    /\ ~lastOp.reported

\* The generation for the first narration was cancelled while it ran: the
\* history is the seed handleRegenerate left.
CancellationIsSilentWitness ==
  /\ Cancelled
  /\ lastOp.phase = "generating"
  /\ Position = 0
  /\ HasHistory
  /\ HistoryAfter.entries = <<Entry(Dawn, "regenerate")>>
  /\ events = Story

\* C22: when the generation of a regeneration fails, the failure is
\* reported, the seed version handleRegenerate created exists, and the log
\* and the histories have no version more than that.
FailureKeepsSeed ==
  Failed =>
    /\ lastOp.reported
    /\ HasHistory
    /\ events = lastOp.state.events
    /\ eventHistory = lastOp.state.eventHistory

\* C29: when an asynchronous step commits, the store becomes what the
\* step's updater makes of the state the step started from; what History
\* Operations did to the store while the step was in flight is gone.
CommitOverwrites ==
  Called("setAsyncCommitted") =>
    LET result == Regenerated(lastOp.state, Position, lastOp.newEvent)
    IN /\ events = result.events
       /\ eventHistory = result.eventHistory

\* A step committed after ensureEventHistory had seeded a history at another
\* position while the step was in flight: that history is gone.
CommitOverwritesWitness ==
  /\ Called("setAsyncCommitted")
  /\ \E k \in DOMAIN pre.eventHistory :
       /\ k # PositionKey
       /\ ~Has(lastOp.state.eventHistory, k)
       /\ ~Has(eventHistory, k)

\* C26: ensureEventHistory, addEventHistoryVersion and deleteEvent called
\* with a position at or past the end of the log that has no history leave
\* the log and the History Store as they were.
CallsPastEndAreNoOps ==
  /\ \/ Called("ensureEventHistory")
     \/ Called("addEventHistoryVersion")
     \/ Called("deleteEvent")
  /\ Position >= Len(pre.events)
  /\ ~HadHistory
  => /\ events = pre.events
     /\ eventHistory = pre.eventHistory
     /\ error = FALSE

\* addEventHistoryVersion was called with the first position past the end
\* of a log whose last position has a history.
CallsPastEndAreNoOpsWitness ==
  /\ Called("addEventHistoryVersion")
  /\ Position = Len(pre.events)
  /\ Position >= 2
  /\ Has(pre.eventHistory, String(Position - 1))
  /\ ~HasHistory

\* C27: every key of the History Store is the key of a position of the log.
KeysAreLogPositions ==
  \A k \in DOMAIN eventHistory :
    \E p \in 0 .. Len(events) - 1 : k = String(p)

\* deleteEvent removed the first event of a log whose last position had a
\* history: the history is at the new last position.
KeysAreLogPositionsWitness ==
  /\ Called("deleteEvent")
  /\ Position = 0
  /\ Len(pre.events) = 3
  /\ Has(pre.eventHistory, String(2))
  /\ Has(eventHistory, String(1))
  /\ Len(events) = 2

\* C28: ensureEventHistory, addEventHistoryVersion,
\* selectEventHistoryVersion and deleteEventHistoryVersion at a position
\* leave the length of the log, the event of every other position and the
\* history of every other position as they were.
OtherPositionsUntouched ==
  \/ Called("ensureEventHistory")
  \/ Called("addEventHistoryVersion")
  \/ Called("selectEventHistoryVersion")
  \/ Called("deleteEventHistoryVersion")
  => /\ Len(events) = Len(pre.events)
     /\ \A q \in 0 .. Len(pre.events) - 1 :
          q # Position => At(events, q) = At(pre.events, q)
     /\ \A k \in (DOMAIN eventHistory) \cup (DOMAIN pre.eventHistory) :
          k # PositionKey =>
            /\ Has(eventHistory, k)
            /\ Has(pre.eventHistory, k)
            /\ eventHistory[k] = pre.eventHistory[k]

\* A version was added at one position while another position had a
\* history.
OtherPositionsUntouchedWitness ==
  /\ Called("addEventHistoryVersion")
  /\ HasHistory
  /\ Len(HistoryAfter.entries) = 2
  /\ At(events, Position) # At(pre.events, Position)
  /\ \E k \in DOMAIN pre.eventHistory : k # PositionKey

\* The entries of the history the last call was about.
ListedEntries == eventHistory[PositionKey].entries

\* C23: for a position with a history and a page that starts inside it,
\* getEventHistoryPage returns the entries at page * pageSize up to, and
\* without, the smaller of page * pageSize + pageSize and the length, in
\* order: the i-th entry of the page is entry page * pageSize + i.
PageIsSlice ==
  /\ Called("getEventHistoryPage")
  /\ HasHistory
  /\ 0 <= lastOp.page * lastOp.pageSize
  /\ lastOp.page * lastOp.pageSize < Len(ListedEntries)
  => LET start == lastOp.page * lastOp.pageSize
         stop == Min(start + lastOp.pageSize, Len(ListedEntries))
     IN /\ Len(lastOp.result) = stop - start
        /\ \A i \in 0 .. Len(lastOp.result) - 1 :
             lastOp.result[i + 1] = ListedEntries[start + i + 1]

\* The third page of five of a history of twelve entries was read: it is
\* the entries 10 and 11.
PageIsSliceWitness ==
  /\ Called("getEventHistoryPage")
  /\ HasHistory
  /\ Len(ListedEntries) = 12
  /\ lastOp.page = 2
  /\ lastOp.pageSize = pageSize
  /\ lastOp.result = <<ListedEntries[11], ListedEntries[12]>>

\* C24: getEventHistoryPage returns the empty sequence when the position
\* has no history and when the page is negative or not below the page
\* count.
PageOutOfRangeIsEmpty ==
  /\ Called("getEventHistoryPage")
  /\ \/ ~HasHistory
     \/ lastOp.page < 0
     \/ lastOp.page >=
          GetEventHistoryPageCount(Current, Position, lastOp.pageSize)
  => lastOp.result = <<>>

\* C25: getEventHistoryPageCount is the least number of pages that hold the
\* entries, 0 without a history, and every entry is on exactly one of the
\* pages 0 .. count - 1.
PageCountCoversEntries ==
  Called("getEventHistoryPageCount") =>
    IF ~HasHistory THEN lastOp.result = 0
    ELSE /\ lastOp.result * lastOp.pageSize >= Len(ListedEntries)
         /\ (lastOp.result - 1) * lastOp.pageSize < Len(ListedEntries)
         /\ \A v \in 1 .. Len(ListedEntries) :
              Cardinality(
                {<<p, i>> \in (0 .. lastOp.result - 1) \X (1 .. lastOp.pageSize) :
                   LET shown == GetEventHistoryPage(Current, Position, p,
                                                    lastOp.pageSize)
                   IN /\ i <= Len(shown)
                      /\ shown[i] = ListedEntries[v]}) = 1

\* The pages of five of a history of twelve entries were counted: three.
PageCountCoversEntriesWitness ==
  /\ Called("getEventHistoryPageCount")
  /\ HasHistory
  /\ Len(ListedEntries) = 12
  /\ lastOp.pageSize = pageSize
  /\ lastOp.result = 3

\* C30: the page the history viewer shows is one of the pages of the
\* history and shows an entry, and deleting the only entry of the last page
\* takes the viewer to the page before.
PageStaysInRange ==
  /\ \A eventIndex \in ViewPositions :
       Has(eventHistory, String(eventIndex)) =>
         /\ 0 <= page
         /\ page < GetEventHistoryPageCount(Current, eventIndex, pageSize)
         /\ GetEventHistoryPage(Current, eventIndex, page, pageSize) # <<>>
  /\ /\ Called("deleteEventHistoryVersion")
     /\ lastOp.page > 0
     /\ Len(pre.eventHistory[PositionKey].entries) =
          lastOp.page * pageSize + 1
     => page = lastOp.page - 1

\* The eleventh entry, alone on the third page, was deleted: the viewer
\* shows the second page.
PageStaysInRangeWitness ==
  /\ Called("deleteEventHistoryVersion")
  /\ lastOp.page = 2
  /\ Version = 10
  /\ Len(pre.eventHistory[PositionKey].entries) = 11
  /\ Len(eventHistory[PositionKey].entries) = 10
  /\ page = 1

\* A regeneration has ended, by a commit or by a throw.
Ended == Called("setAsyncCommitted") \/ Called("setAsyncThrew")

\* C31: a regeneration that has ended, whether its generation returned, was
\* cancelled or failed, has cleared the flag of its position, so that
\* handleRegenerate would not reject a call for it; and every flag that is
\* set is cleared later.
GuardIsReleased ==
  /\ [](Ended => /\ Position \notin isRegenerating
                 /\ ~RegenerateIsRejected(isRegenerating, Position))
  /\ \A eventIndex \in 0 .. Len(Story) - 1 :
       (eventIndex \in isRegenerating) ~> (eventIndex \notin isRegenerating)

\* handleRegenerate was accepted for a position whose history holds the
\* version an earlier regeneration added.
GuardIsReleasedWitness ==
  /\ Called("handleRegenerate")
  /\ ~lastOp.rejected
  /\ Position \in isRegenerating
  /\ Has(pre.eventHistory, PositionKey)
  /\ \E v \in 1 .. Len(HistoryBefore.entries) :
       HistoryBefore.entries[v] = Entry(Retold, "regenerate")

\* The calls that wait for the mutex, in the order of their submission.
Waiting(calls) == SelectSeq(calls, LAMBDA call : call.phase = "waiting")

====
